---------------------------- MODULE Spec2Model ----------------------------
(***************************************************************************)
(* Model of bridge.py: a Modbus-RTU to MQTT bridge.                        *)
(*                                                                         *)
(* Two threads share the serial bus through modbus_lock:                   *)
(*   - the main thread runs the poll loop (three timed groups, then a      *)
(*     publish-on-change of the cached snapshot, then a one second sleep); *)
(*   - the MQTT client's network thread runs on_message (command writes)   *)
(*     and the connection handling.                                        *)
(* The device and the broker are the environment: a device response is one *)
(* of the outcomes instrument._perform_command / read_register /           *)
(* write_register can produce, an inbound message is any topic and payload.*)
(***************************************************************************)
EXTENDS Integers, Sequences, FiniteSets, TLC

(***************************************************************************)
(* Bounds of the exploration                                               *)
(***************************************************************************)
\* time.time() when the main loop starts (any value >= 60 makes every group due)
T0 == 100
\* length of a run of the whole program, in seconds after T0
Horizon == 1
\* length of a run of the poll loop alone, in seconds after T0
PollHorizon == 61
\* number of device responses that deviate from the nominal one (failure or other value)
MaxFaults == 1
\* number of inbound MQTT messages
MaxMsgs == 2
\* number of connection losses
MaxDrops == 1
\* length of a run under fair scheduling, in seconds after T0
LiveHorizon == 3
\* number of inbound MQTT messages in a run under fair scheduling
MaxLiveMsgs == 1

(***************************************************************************)
(* Register schema (module level tables of the program)                    *)
(***************************************************************************)
\* coil_names: index -> label (coil 13 omitted, 6 and 7 absent)
coil_names ==
  (0 :> "Soft starter Compressor") @@ (1 :> "3-Way shunt VV open/close") @@
  (2 :> "Start/stop expansion valve") @@ (3 :> "Heating element") @@
  (4 :> "Circ. pump warm side") @@ (5 :> "El-tracing CV/drain") @@
  (8 :> "4-way valve defrost") @@ (9 :> "Liquid injection solenoid valve") @@
  (10 :> "3-way shunt CV open") @@ (11 :> "3-way shunt CV close") @@
  (12 :> "Circ. pump CV") @@ (14 :> "Sum alarm failure")

\* registers of the FC04 loop, range(0x01, 0x0F), in loop order
Fc04Regs == <<1, 2, 3, 4, 5, 6, 7, 8, 9, 10, 11, 12, 13, 14>>

\* omit_fc04, as register numbers ("sensor_<n>" is keyed here by n)
omit_fc04 == {4, 8, 9, 10, 13, 14}

\* fc04_labels: "sensor_<n>" -> label
fc04_labels ==
  (1 :> "CV Forward") @@ (2 :> "CV Return") @@ (3 :> "Storage tank VV") @@
  (5 :> "Storage tank CV") @@ (6 :> "Evaporator") @@ (7 :> "Outdoor") @@
  (11 :> "Compressor HP") @@ (12 :> "Compressor LP")

\* f"sensor_{reg}", the key of fc04_raw
SensorKey ==
  (1 :> "sensor_1") @@ (2 :> "sensor_2") @@ (3 :> "sensor_3") @@ (4 :> "sensor_4") @@
  (5 :> "sensor_5") @@ (6 :> "sensor_6") @@ (7 :> "sensor_7") @@ (8 :> "sensor_8") @@
  (9 :> "sensor_9") @@ (10 :> "sensor_10") @@ (11 :> "sensor_11") @@
  (12 :> "sensor_12") @@ (13 :> "sensor_13") @@ (14 :> "sensor_14")

\* fc04_labels.get(key, key)
Fc04Label(reg) == IF reg \in DOMAIN fc04_labels THEN fc04_labels[reg] ELSE SensorKey[reg]

\* EM23 registers read with FC04
RegPower == 36
RegEnergyMsw == 37
RegEnergyLsw == 38

\* fc06_registers of the main loop, in dict (insertion) order
Fc06Regs == <<1, 2, 3, 4, 10, 11, 12, 15, 161, 162, 163, 208>>

fc06_registers ==
  (1 :> "cv_mode") @@ (2 :> "cv_curve") @@ (3 :> "cv_setpoint") @@
  (4 :> "cv_night_setback") @@ (10 :> "vv_mode") @@ (11 :> "vv_setpoint") @@
  (12 :> "vv_schedule") @@ (15 :> "aux_heating") @@ (161 :> "comp_hours") @@
  (162 :> "vv_hours") @@ (163 :> "heating_hours") @@ (208 :> "curve_temp")

\* fc06_adjustments: reg -> (multiplier as 1/den, decimals)
fc06_adjustments == (208 :> [den |-> 10, decimals |-> 1])

\* command_map: topic -> register, scale
command_map ==
  ("dvi/command/vvstate" :> [register |-> 266, scale |-> 1]) @@
  ("dvi/command/cvstate" :> [register |-> 257, scale |-> 1]) @@
  ("dvi/command/cvcurve" :> [register |-> 258, scale |-> 1]) @@
  ("dvi/command/vvsetpoint" :> [register |-> 267, scale |-> 1]) @@
  ("dvi/command/tvstate" :> [register |-> 271, scale |-> 1])

\* polling intervals of the three groups, seconds
CoilInterval == 13
Fc04Interval == 17
MiscInterval == 60
\* time.sleep(1)
SleepSeconds == 1
\* instrument.serial.timeout
SerialTimeout == 2

(***************************************************************************)
(* Values                                                                  *)
(***************************************************************************)
\* round(raw * 0.1, 1), round(raw * 0.0001, 4): a decimal number num/den
Dec(num, den) == [num |-> num, den |-> den]
\* an int stored as is
Whole(n) == [num |-> n, den |-> 1]

\* Python None
NoneVal == [none |-> TRUE]

\* an empty dict
EmptyDict == <<>>

\* dict(sorted(d.items())): the same mapping, its keys in ascending order; a
\* mapping is modelled as a function, which carries no key order, and the
\* order is made explicit where it is observable (json_dumps)
SortedDict(d) == d

\* d[k] = v
DictSet(d, k, v) == [x \in DOMAIN d \cup {k} |-> IF x = k THEN v ELSE d[x]]

Pow2(n) == 2 ^ n

(***************************************************************************)
(* Protocol codec: the parsing done by the read wrappers                   *)
(***************************************************************************)
\* A device response: exc = the library call raised (timeout, I/O error,
\* invalid frame), dt = seconds the call took, bytes = payload returned by
\* _perform_command, val = value returned by read_register
Resp(exc, dt, bytes, val) == [exc |-> exc, dt |-> dt, bytes |-> bytes, val |-> val]
NoResp == Resp(FALSE, 0, <<>>, 0)

\* variant: the two mask bytes taken high byte first
read_coils_high_first(r) ==
  IF r.exc \/ Len(r.bytes) < 3 \/ r.bytes[1] # 2
  THEN EmptyDict
  ELSE LET bitmask == r.bytes[2] * 256 + r.bytes[3]
           bits == [i \in 0..15 |-> (bitmask \div Pow2(i)) % 2]
           labels == {coil_names[i] : i \in DOMAIN coil_names}
           idx(l) == CHOOSE i \in DOMAIN coil_names : coil_names[i] = l
       IN SortedDict([l \in labels |-> bits[idx(l)]])

\* read_coils, lines 176-185: the dict returned for a response
read_coils(r) ==
  IF r.exc \/ Len(r.bytes) < 3 \/ r.bytes[1] # 2
  THEN EmptyDict
  ELSE LET bitmask == r.bytes[3] * 256 + r.bytes[2]
           bits == [i \in 0..15 |-> (bitmask \div Pow2(i)) % 2]
           labels == {coil_names[i] : i \in DOMAIN coil_names}
           idx(l) == CHOOSE i \in DOMAIN coil_names : coil_names[i] = l
       IN SortedDict([l \in labels |-> bits[idx(l)]])

\* variant: a failed read yields 0 instead of None
read_input_zero(r) == IF r.exc THEN Whole(0) ELSE Whole(r.val)

\* read_input, lines 187-193: the register value or None
read_input(r) == IF r.exc THEN NoneVal ELSE Whole(r.val)

\* read_via_fc06, lines 195-204: struct.unpack('>HH', response)[1] or None
read_via_fc06(r) ==
  IF r.exc \/ Len(r.bytes) # 4 THEN NoneVal
  ELSE Whole(r.bytes[3] * 256 + r.bytes[4])

IsNone(v) == v = NoneVal


(***************************************************************************)
(* Snapshot serialisation                                                  *)
(***************************************************************************)
\* the labels of each mapping in ascending (code point) order, the order
\* dict(sorted(...)) gives the keys
CoilLabelOrder ==
  <<"3-Way shunt VV open/close", "3-way shunt CV close", "3-way shunt CV open",
    "4-way valve defrost", "Circ. pump CV", "Circ. pump warm side",
    "El-tracing CV/drain", "Heating element", "Liquid injection solenoid valve",
    "Soft starter Compressor", "Start/stop expansion valve", "Sum alarm failure">>
InputLabelOrder ==
  <<"CV Forward", "CV Return", "Compressor HP", "Compressor LP", "Evaporator",
    "Outdoor", "Storage tank CV", "Storage tank VV", "em23_energy", "em23_power">>
WriteLabelOrder ==
  <<"aux_heating", "comp_hours", "curve_temp", "cv_curve", "cv_mode",
    "cv_night_setback", "cv_setpoint", "heating_hours", "vv_hours", "vv_mode",
    "vv_schedule", "vv_setpoint">>

\* the items of dict d, in key order
RECURSIVE Items(_, _)
Items(d, order) ==
  IF order = <<>> THEN <<>>
  ELSE LET k == Head(order)
       IN (IF k \in DOMAIN d THEN <<(<<k, d[k]>>)>> ELSE <<>>) \o Items(d, Tail(order))

\* json.dumps(full_payload): the three keys in insertion order, each with its
\* items in key order
json_dumps(p) ==
  << <<"coils", Items(p.coils, CoilLabelOrder)>>,
     <<"input_registers", Items(p.input_registers, InputLabelOrder)>>,
     <<"write_registers", Items(p.write_registers, WriteLabelOrder)>> >>

(***************************************************************************)
(* Command payloads: bytes.decode(), str.strip(), int()                    *)
(***************************************************************************)
\* a payload is a sequence of bytes (0..255); a str is a sequence of Unicode
\* code points

\* msg.payload.decode(): strict UTF-8. ok = no UnicodeDecodeError, chars =
\* the str. A lead byte gives the length of its sequence; the second byte
\* is limited so that overlong forms, surrogates and code points above
\* U+10FFFF are rejected. The payload is well formed when every byte that is
\* no continuation byte starts a valid sequence and every continuation byte
\* lies within the sequence of the lead byte before it
Decode(bytes) ==
  LET Cont(i) == bytes[i] \in 128..191
      SeqLen(i) == CASE bytes[i] < 128 -> 1
                     [] bytes[i] \in 194..223 -> 2
                     [] bytes[i] \in 224..239 -> 3
                     [] bytes[i] \in 240..244 -> 4
                     [] OTHER -> 0
      lo2(i) == CASE bytes[i] = 224 -> 160 [] bytes[i] = 240 -> 144 [] OTHER -> 128
      hi2(i) == CASE bytes[i] = 237 -> 159 [] bytes[i] = 244 -> 143 [] OTHER -> 191
      Valid(i) == /\ SeqLen(i) > 0 /\ Len(bytes) >= i + SeqLen(i) - 1
                  /\ SeqLen(i) >= 2 => bytes[i + 1] \in lo2(i)..hi2(i)
                  /\ \A k \in 2..(SeqLen(i) - 1) : Cont(i + k)
      Covered(i) == \E j \in 1..3 : /\ i - j >= 1 /\ ~Cont(i - j)
                                     /\ i < i - j + SeqLen(i - j)
      CodePoint(i) ==
        CASE SeqLen(i) = 1 -> bytes[i]
          [] SeqLen(i) = 2 -> (bytes[i] % 32) * 64 + (bytes[i + 1] % 64)
          [] SeqLen(i) = 3 -> (bytes[i] % 16) * 4096 + (bytes[i + 1] % 64) * 64 +
                              (bytes[i + 2] % 64)
          [] OTHER -> (bytes[i] % 8) * 262144 + (bytes[i + 1] % 64) * 4096 +
                      (bytes[i + 2] % 64) * 64 + (bytes[i + 3] % 64)
      IsLead(i) == ~Cont(i)
      leads == SelectSeq([i \in 1..Len(bytes) |-> i], IsLead)
  IN IF \A i \in 1..Len(bytes) : IF Cont(i) THEN Covered(i) ELSE Valid(i)
     THEN [ok |-> TRUE, chars |-> [k \in 1..Len(leads) |-> CodePoint(leads[k])]]
     ELSE [ok |-> FALSE, chars |-> <<>>]

\* msg.payload.decode() raises UnicodeDecodeError
DecodeFails(bytes) == ~Decode(bytes).ok

\* the characters str.strip() takes as white space (str.isspace):
\* TAB, LF, VT, FF, CR, FS, GS, RS, US, SPACE, NEL, NBSP and the Unicode
\* space separators and line and paragraph separators
WhiteSpace ==
  {9, 10, 11, 12, 13, 28, 29, 30, 31, 32, 133, 160, 5760, 8192, 8193, 8194,
   8195, 8196, 8197, 8198, 8199, 8200, 8201, 8202, 8232, 8233, 8239, 8287,
   12288}

\* the code point of digit zero of every Unicode decimal digit block (general
\* category Nd, Unicode 14.0): each block holds the digits 0 to 9 in order
DigitZeros ==
  {48, 1632, 1776, 1984, 2406, 2534, 2662, 2790, 2918, 3046, 3174, 3302,
   3430, 3558, 3664, 3792, 3872, 4160, 4240, 6112, 6160, 6470, 6608, 6784,
   6800, 6992, 7088, 7232, 7248, 42528, 43216, 43264, 43472, 43504, 43600,
   44016, 65296, 66720, 68912, 69734, 69872, 69942, 70096, 70384, 70736,
   70864, 71248, 71360, 71472, 71904, 72016, 72784, 73040, 73120, 92768,
   92864, 93008, 120782, 120792, 120802, 120812, 120822, 123200, 123632,
   125264, 130032}

\* whether int() takes the character as a decimal digit, and its value
IsDigit(c) == \E z \in DigitZeros : c \in z..(z + 9)
DigitVal(c) == c - (CHOOSE z \in DigitZeros : c \in z..(z + 9))

\* the characters "+", "-" and "_"
PlusSign == 43
MinusSign == 45
Underscore == 95

\* s without the leading, the trailing characters that are in ws
RECURSIVE LStripOf(_, _)
LStripOf(s, ws) == IF s # <<>> /\ Head(s) \in ws THEN LStripOf(Tail(s), ws) ELSE s
RECURSIVE RStripOf(_, _)
RStripOf(s, ws) ==
  IF s # <<>> /\ s[Len(s)] \in ws THEN RStripOf(SubSeq(s, 1, Len(s) - 1), ws) ELSE s

\* str.strip()
LStrip(s) == LStripOf(s, WhiteSpace)
RStrip(s) == RStripOf(s, WhiteSpace)
Strip(s) == RStrip(LStrip(s))

\* the white space int() ignores around a literal: that of str.strip()
\* except the separators U+001C..U+001F
IntWhiteSpace == WhiteSpace \ (28..31)

\* sys.get_int_max_str_digits(): int() refuses a literal of more digits
\* (the interpreter's default, which the program does not change)
MaxStrDigits == 4300

\* the digits of a decimal literal: digits, single underscores between digits
IsDigits(s) ==
  /\ s # <<>>
  /\ IsDigit(s[1]) /\ IsDigit(s[Len(s)])
  /\ \A i \in 1..Len(s) : IsDigit(s[i]) \/ s[i] = Underscore
  /\ \A i \in 1..(Len(s) - 1) : ~(s[i] = Underscore /\ s[i + 1] = Underscore)

\* the digits of a literal (its underscores left out), their number, and
\* the digits from the first one that is not zero
Digits(s) == LET NoUnderscore(c) == c # Underscore IN SelectSeq(s, NoUnderscore)
DigitCount(s) == Len(Digits(s))
Significant(s) ==
  LET d == Digits(s)
      nz == {i \in 1..Len(d) : DigitVal(d[i]) # 0}
  IN IF nz = {} THEN <<>>
     ELSE SubSeq(d, CHOOSE i \in nz : \A j \in nz : i <= j, Len(d))

\* the value of a sequence of digits, in base 10
RECURSIVE DigitsValue(_, _)
DigitsValue(s, acc) ==
  IF s = <<>> THEN acc ELSE DigitsValue(Tail(s), acc * 10 + DigitVal(Head(s)))

\* int(payload_str): ok = no ValueError, val = the integer. int() itself
\* ignores its white space around the literal, and refuses a literal of more
\* than MaxStrDigits digits
ParseInt(str) ==
  LET s == RStripOf(LStripOf(str, IntWhiteSpace), IntWhiteSpace)
      signed == s # <<>> /\ Head(s) \in {PlusSign, MinusSign}
      body == IF signed THEN Tail(s) ELSE s
  IN IF IsDigits(body) /\ DigitCount(body) <= MaxStrDigits
     THEN [ok |-> TRUE,
           val |-> IF signed /\ Head(s) = MinusSign
                   THEN 0 - DigitsValue(Significant(body), 0)
                   ELSE DigitsValue(Significant(body), 0)]
     ELSE [ok |-> FALSE, val |-> 0]

\* line 218: payload_str = msg.payload.decode().strip()
PayloadStr(payload) == Strip(Decode(payload).chars)

\* inbound messages of the exploration
InTopics == {"dvi/command/vvsetpoint", "dvi/command/unknown"}
\* b"22"; form feed, ARABIC-INDIC DIGIT THREE (U+0663, two bytes), CR, LF;
\* b"-1"; b"65536"; b"ab"; the byte 0xFF (no UTF-8)
InPayloads ==
  { <<50, 50>>, <<12, 217, 163, 13, 10>>, <<45, 49>>, <<54, 53, 53, 51, 54>>,
    <<97, 98>>, <<255>> }

(***************************************************************************)
(* The device                                                              *)
(***************************************************************************)
\* registers on which the device may deviate from its nominal response
\* (0 stands for the coil block)
FlakyRegs == {0, 4, 6, 36, 37, 38, 11, 208}

\* the value a register nominally holds
DeviceValue(reg) ==
  CASE reg = 6 -> 215
    [] reg = 208 -> 305
    [] reg = 161 -> 42
    [] reg = 36 -> 12345
    [] reg = 37 -> 1
    [] reg = 38 -> 9029
    [] OTHER -> 200 + reg
\* another value it may hold
DeviceOtherValue(reg) == DeviceValue(reg) + 1
\* the coil mask it nominally reports (bits 0, 4, 13, 14) and another one (1, 3, 13)
CoilMask == Pow2(0) + Pow2(4) + Pow2(13) + Pow2(14)
CoilOtherMask == Pow2(1) + Pow2(3) + Pow2(13)

HiByte(w) == (w \div 256) % 256
LoByte(w) == w % 256

\* a bus frame: function code, the two 16 bit words of the payload, the sender
Frame(by, fc, a, b) == [by |-> by, fc |-> fc, a |-> a, b |-> b]

\* the nominal response to a frame
NominalResponse(f) ==
  CASE f.fc = 1 -> Resp(FALSE, 0, <<2, LoByte(CoilMask), HiByte(CoilMask)>>, 0)
    [] f.fc = 4 -> Resp(FALSE, 0, <<>>, DeviceValue(f.a))
    [] OTHER -> Resp(FALSE, 0, <<HiByte(f.a), LoByte(f.a),
                                 HiByte(DeviceValue(f.a)), LoByte(DeviceValue(f.a))>>, 0)

\* the other outcomes of the library call: an exception (a timeout after
\* SerialTimeout seconds; an I/O or checksum error takes the same except
\* branch sooner), a well-formed response with another value, and for the
\* raw FC01 and FC06 commands a malformed payload
DeviatingResponses(f) ==
  {Resp(TRUE, SerialTimeout, <<>>, 0)} \cup
  CASE f.fc = 1 ->
         {Resp(FALSE, 0, <<2, LoByte(CoilOtherMask), HiByte(CoilOtherMask)>>, 0),
          Resp(FALSE, 0, <<3, LoByte(CoilMask), HiByte(CoilMask), 0>>, 0),
          Resp(FALSE, 0, <<1, LoByte(CoilMask)>>, 0)}
    [] f.fc = 4 -> {Resp(FALSE, 0, <<>>, DeviceOtherValue(f.a))}
    [] OTHER ->
         {Resp(FALSE, 0, <<HiByte(f.a), LoByte(f.a), HiByte(DeviceOtherValue(f.a)),
                           LoByte(DeviceOtherValue(f.a))>>, 0),
          Resp(FALSE, 0, <<HiByte(f.a), LoByte(f.a)>>, 0)}

\* the register a poll frame is about (0 for the coil block)
FrameReg(f) == IF f.fc = 1 THEN 0 ELSE f.a


\* whether the device answered the frame with a well-formed response
ResponseOk(f, r) ==
  /\ ~r.exc
  /\ f.fc = 1 => (Len(r.bytes) >= 3 /\ r.bytes[1] = 2)
  /\ f.fc = 6 => Len(r.bytes) = 4

(***************************************************************************)
(* State                                                                   *)
(***************************************************************************)
VARIABLES
  clock,            \* time.time()
  pending,          \* per thread, the blocking call it is in: when it returns, and with what
  faults,           \* device responses that deviated so far
  pc,               \* main thread: [g: statement group, i: loop index, ph: phase of the call]
  now,
  last_coil_update, last_fc04_update, last_misc_update,
  last_coils, last_inputs, last_writes, last_published,
  fc04_raw, msw,    \* locals of the main loop
  response,         \* what the bus call of the main thread returned or raised
  modbus_lock,      \* "free", or the thread that holds it: "poll", "mqtt"
  wire,             \* frames sent on the serial line and not yet answered
  cbpc,             \* MQTT thread: "idle", or its place in on_message
  cbmsg,            \* the message on_message is handling
  cbwrite,          \* cfg["register"], scaled
  cbresp,           \* what write_register did
  cbresult,         \* how on_message ended: "ignored", "failed", "written"
  cbwrites,         \* write requests sent for the message
  msgs,             \* inbound messages so far
  mqtt,             \* "connecting", "connected"
  subscribed,       \* topics the client is subscribed to
  drops,            \* connection losses so far
  outbox,           \* payload of the last dvi/measurement message that reached the broker
  published,        \* the payload this tick gave mqtt_client.publish for dvi/measurement, <<>> if none
  reads,            \* register -> "ok" / "fail": the device's answers during this tick
  everOk,           \* registers the device answered well at least once
  ran               \* per group, the latest run: its tick (now) and the clock at its start, -1 if none

pollVars == <<pc, now, last_coil_update, last_fc04_update, last_misc_update,
              last_coils, last_inputs, last_writes, last_published,
              fc04_raw, msw, response, published, reads, everOk, ran>>
cacheVars == <<last_coils, last_inputs, last_writes>>
timerVars == <<last_coil_update, last_fc04_update, last_misc_update>>
cbVars == <<cbpc, cbmsg, cbwrite, cbresp, cbresult, cbwrites, msgs>>
mqttVars == <<mqtt, subscribed, drops, outbox>>
vars == <<clock, pending, faults, pollVars, modbus_lock, wire, cbVars, mqttVars>>

P(g, i, ph) == [g |-> g, i |-> i, ph |-> ph]
NoMsg == [topic |-> "", payload |-> <<>>]
NoWrite == [register |-> 0, value |-> 0]

\* a thread is in no blocking call; it is in one that returns at time t with r
NotWaiting == [until |-> 0, resp |-> NoResp]
Waiting(t, r) == [until |-> t, resp |-> r]

\* lines 28, 233-240 and the state of the client after connect() and loop_start()
Init ==
  /\ clock = T0
  /\ pending = [poll |-> NotWaiting, mqtt |-> NotWaiting]
  /\ faults = 0
  /\ pc = P("loop", 0, "-")
  /\ now = 0
  /\ last_coil_update = 0 /\ last_fc04_update = 0 /\ last_misc_update = 0
  /\ last_coils = EmptyDict /\ last_inputs = EmptyDict /\ last_writes = EmptyDict
  /\ last_published = NoneVal
  /\ fc04_raw = EmptyDict /\ msw = NoneVal
  /\ response = NoResp
  /\ modbus_lock = "free"
  /\ wire = {}
  /\ cbpc = "idle" /\ cbmsg = NoMsg /\ cbwrite = NoWrite /\ cbresp = NoResp
  /\ cbresult = "" /\ cbwrites = 0 /\ msgs = 0
  /\ mqtt = "connecting" /\ subscribed = {} /\ drops = 0
  /\ outbox = <<>>
  /\ published = <<>>
  /\ reads = <<>> /\ everOk = {}
  /\ ran = [coils |-> -1, fc04 |-> -1, misc |-> -1,
            coilsAt |-> -1, fc04At |-> -1, miscAt |-> -1]

(***************************************************************************)
(* Bus serializer: with modbus_lock                                        *)
(***************************************************************************)
\* variant: the lock is taken without waiting for it
CanAcquireAnytime(lock) == TRUE

\* threading.Lock.acquire: blocks until the lock is free
CanAcquire(lock) == lock = "free"

\* variant: the lock is released on the normal path only
ReleaseLockOnSuccess(owner, r) == IF r.exc THEN owner ELSE "free"

\* variant: the lock is not released at the end of the block
ReleaseLockNever(owner, r) == owner

\* leaving the with block, normally or by an exception in the call r
ReleaseLock(owner, r) == "free"

\* variant: the echo read carries a value of its own
PollFrameWithValue(p) ==
  CASE p.g = "coils" -> Frame("poll", 1, 1, 14)
    [] p.g = "fc04" -> Frame("poll", 4, Fc04Regs[p.i], 1)
    [] p.g = "power" -> Frame("poll", 4, RegPower, 1)
    [] p.g = "msw" -> Frame("poll", 4, RegEnergyMsw, 1)
    [] p.g = "lsw" -> Frame("poll", 4, RegEnergyLsw, 1)
    [] OTHER -> Frame("poll", 6, Fc06Regs[p.i], 1)

\* the frame of the bus call the main thread is at
PollFrame(p) ==
  CASE p.g = "coils" -> Frame("poll", 1, 1, 14)
    [] p.g = "fc04" -> Frame("poll", 4, Fc04Regs[p.i], 1)
    [] p.g = "power" -> Frame("poll", 4, RegPower, 1)
    [] p.g = "msw" -> Frame("poll", 4, RegEnergyMsw, 1)
    [] p.g = "lsw" -> Frame("poll", 4, RegEnergyLsw, 1)
    [] OTHER -> Frame("poll", 6, Fc06Regs[p.i], 0)

\* what the device may answer when used of at most most deviations have
\* happened
Responses(f, used, most) ==
  {NominalResponse(f)} \cup
  (IF used < most /\ FrameReg(f) \in FlakyRegs THEN DeviatingResponses(f) ELSE {})

\* the registers whose read may time out, any number of times, in the runs
\* under fair scheduling: the coil block, three reads of the fast-register
\* group (0x04, 0x06, 0x24) and four of the slow group (0x25, 0x26 and the
\* echo reads of 0x04 and 0xD0)
TimeoutRegs == FlakyRegs \ {11}

\* what the device may do in those runs: answer, or not answer at all
TimeoutResponses(f) ==
  {NominalResponse(f)} \cup
  (IF FrameReg(f) \in TimeoutRegs THEN {Resp(TRUE, SerialTimeout, <<>>, 0)} ELSE {})


(***************************************************************************)
(* Poll scheduler: the main loop                                           *)
(***************************************************************************)
\* line 402: the statement after the FC04 group
AfterFc04(n) ==
  IF n - last_misc_update >= MiscInterval THEN P("msw", 0, "acq") ELSE P("publish", 0, "-")
\* line 381: the statement after the coil group
AfterCoils(n) ==
  IF n - last_fc04_update >= Fc04Interval THEN P("fc04", 1, "acq") ELSE AfterFc04(n)
\* line 375: the statement after now = time.time()
AfterNow(n) ==
  IF n - last_coil_update >= CoilInterval THEN P("coils", 0, "acq") ELSE AfterCoils(n)

\* line 382: fc04_raw = {} on entering the FC04 group
EnterFc04(p) == IF p.g = "fc04" THEN EmptyDict ELSE fc04_raw

\* variant: the timer is advanced only when every read of the run succeeded
StampOnSuccess(old, n, failed) == IF failed THEN old ELSE n

\* lines 378, 399, 439: the timer of a group after its run; failed = some
\* read of the run returned nothing
Stamp(old, n, failed) == n

\* lines 375, 381, 402: a group whose condition holds runs in this tick; the
\* history of runs r after statement p is reached in the tick of time n, the
\* clock showing c
Ran(r, p, n, c) ==
  CASE p.g = "coils" -> [r EXCEPT !.coils = n, !.coilsAt = c]
    [] p.g = "fc04" -> [r EXCEPT !.fc04 = n, !.fc04At = c]
    [] p.g = "msw" -> [r EXCEPT !.misc = n, !.miscAt = c]
    [] OTHER -> r

\* line 372
LoopTop ==
  /\ pc.g = "loop"
  /\ now' = clock
  /\ pc' = AfterNow(clock)
  /\ fc04_raw' = EnterFc04(pc')
  /\ reads' = <<>>
  /\ ran' = Ran(ran, pc', clock, clock)
  /\ UNCHANGED <<clock, pending, faults, timerVars, cacheVars, last_published, msw, response,
                 published, everOk, modbus_lock, wire, cbVars, mqttVars>>

\* with modbus_lock: (lines 172, 189, 197)
PollAcquire ==
  /\ pc.ph = "acq"
  /\ CanAcquire(modbus_lock)
  /\ modbus_lock' = "poll"
  /\ pc' = [pc EXCEPT !.ph = "locked"]
  /\ UNCHANGED <<clock, pending, faults, now, timerVars, cacheVars, last_published, fc04_raw, msw,
                 response, published, reads, everOk, ran, wire, cbVars, mqttVars>>

\* the library call writes the request and waits for the response (lines
\* 174, 190, 199); the device answers with one of answers, at once or, for
\* a timeout, never
PollSendTo(answers) ==
  /\ pc.ph = "locked"
  /\ wire' = wire \cup {PollFrame(pc)}
  /\ \E r \in answers :
       /\ pending' = [pending EXCEPT !.poll = Waiting(clock + r.dt, r)]
       /\ faults' = IF r = NominalResponse(PollFrame(pc)) THEN faults ELSE faults + 1
  /\ pc' = [pc EXCEPT !.ph = "sent"]
  /\ UNCHANGED <<clock, now, timerVars, cacheVars, last_published, fc04_raw, msw,
                 response, published, reads, everOk, ran, modbus_lock, cbVars, mqttVars>>

\* the same, the device deviating at most most times in the run
PollSend(most) == PollSendTo(Responses(PollFrame(pc), faults, most))

\* the library call returns the response or raises (lines 174, 190, 199)
PollRecv ==
  /\ pc.ph = "sent"
  /\ clock >= pending.poll.until
  /\ LET f == PollFrame(pc)
         r == pending.poll.resp
     IN /\ response' = r
        /\ reads' = DictSet(reads, FrameReg(f), IF ResponseOk(f, r) THEN "ok" ELSE "fail")
        /\ everOk' = IF ResponseOk(f, r) THEN everOk \cup {FrameReg(f)} ELSE everOk
  /\ pending' = [pending EXCEPT !.poll = NotWaiting]
  /\ wire' = wire \ {PollFrame(pc)}
  /\ pc' = [pc EXCEPT !.ph = "recvd"]
  /\ UNCHANGED <<clock, faults, now, timerVars, cacheVars, last_published, ran, fc04_raw,
                 msw, published, modbus_lock, cbVars, mqttVars>>

\* the with block of the read wrapper is left, by the end of the block, by
\* its return statement or by the exception of the call (lines 172-174,
\* 189-190, 197-201); what the wrapper returns is not yet stored
PollRelease ==
  /\ pc.ph = "recvd"
  /\ modbus_lock' = ReleaseLock("poll", response)
  /\ pc' = [pc EXCEPT !.ph = "ret"]
  /\ UNCHANGED <<clock, pending, faults, now, timerVars, cacheVars, last_published,
                 fc04_raw, msw, response, published, reads, everOk, ran, wire, cbVars,
                 mqttVars>>

\* the coil group, lines 176-185 and 375-378: read_coils returns, its result is stored
CoilsDone ==
  /\ pc.g = "coils" /\ pc.ph = "ret"
  /\ last_coils' = SortedDict(read_coils(response))
  /\ last_coil_update' = Stamp(last_coil_update, now, reads[0] = "fail")
  /\ pc' = AfterCoils(now)
  /\ fc04_raw' = EnterFc04(pc')
  /\ response' = NoResp
  /\ ran' = Ran(ran, pc', now, clock)
  /\ UNCHANGED <<clock, pending, faults, now, last_fc04_update, last_misc_update, last_inputs,
                 last_writes, last_published, msw, published, reads, everOk, modbus_lock, wire,
                 cbVars, mqttVars>>

\* variant: the omission set is not applied
MergeFc04All(inputs, raw) ==
  LET keys == DOMAIN raw
      labels == {Fc04Label(k) : k \in keys}
      key(l) == CHOOSE k \in keys : Fc04Label(k) = l
  IN [l \in DOMAIN inputs \cup labels |->
        IF l \in labels THEN Dec(raw[key(l)].num, 10) ELSE inputs[l]]

\* lines 388-392: the labelled sensors of fc04_raw merged into last_inputs
MergeFc04(inputs, raw) ==
  LET keys == DOMAIN raw \ omit_fc04
      labels == {Fc04Label(k) : k \in keys}
      key(l) == CHOOSE k \in keys : Fc04Label(k) = l
  IN [l \in DOMAIN inputs \cup labels |->
        IF l \in labels THEN Dec(raw[key(l)].num, 10) ELSE inputs[l]]

\* lines 383-392: one iteration of the read loop, and after the last one the merge
Fc04Done ==
  /\ pc.g = "fc04" /\ pc.ph = "ret"
  /\ LET reg == Fc04Regs[pc.i]
         val == read_input(response)
         raw == IF IsNone(val) THEN fc04_raw ELSE DictSet(fc04_raw, reg, val)
     IN /\ fc04_raw' = raw
        /\ IF pc.i < Len(Fc04Regs)
           THEN /\ pc' = P("fc04", pc.i + 1, "acq")
                /\ UNCHANGED last_inputs
           ELSE /\ pc' = P("power", 0, "acq")
                /\ last_inputs' = MergeFc04(last_inputs, raw)
  /\ response' = NoResp
  /\ UNCHANGED <<clock, pending, faults, now, timerVars, last_coils, last_writes, last_published,
                 msw, published, reads, everOk, ran, modbus_lock, wire, cbVars, mqttVars>>

\* lines 395-399
PowerDone ==
  /\ pc.g = "power" /\ pc.ph = "ret"
  /\ LET power == read_input(response)
     IN last_inputs' = IF IsNone(power) THEN last_inputs
                       ELSE DictSet(last_inputs, "em23_power", Dec(power.num, 10000))
  /\ last_fc04_update' =
       Stamp(last_fc04_update, now,
             \E k \in {Fc04Regs[i] : i \in 1..Len(Fc04Regs)} \cup {RegPower} : reads[k] = "fail")
  /\ pc' = AfterFc04(now)
  /\ response' = NoResp
  /\ ran' = Ran(ran, pc', now, clock)
  /\ UNCHANGED <<clock, pending, faults, now, last_coil_update, last_misc_update, last_coils,
                 last_writes, last_published, fc04_raw, msw, published, reads, everOk,
                 modbus_lock, wire, cbVars, mqttVars>>

\* line 403
MswDone ==
  /\ pc.g = "msw" /\ pc.ph = "ret"
  /\ msw' = read_input(response)
  /\ pc' = P("lsw", 0, "acq")
  /\ response' = NoResp
  /\ UNCHANGED <<clock, pending, faults, now, timerVars, cacheVars, last_published, fc04_raw,
                 published, reads, everOk, ran, modbus_lock, wire, cbVars, mqttVars>>

\* variant: the two words in the other order
EnergyLowFirst(hi, lo) == Dec(lo.num * 65536 + hi.num, 10)

\* lines 406-407: round(((msw << 16) + lsw) * 0.1, 1)
Energy(hi, lo) == Dec(hi.num * 65536 + lo.num, 10)

\* lines 404-407
LswDone ==
  /\ pc.g = "lsw" /\ pc.ph = "ret"
  /\ LET lsw == read_input(response)
     IN last_inputs' =
          IF ~IsNone(msw) /\ ~IsNone(lsw)
          THEN DictSet(last_inputs, "em23_energy", Energy(msw, lsw))
          ELSE last_inputs
  /\ pc' = P("echo", 1, "acq")
  /\ response' = NoResp
  /\ UNCHANGED <<clock, pending, faults, now, timerVars, last_coils, last_writes, last_published,
                 fc04_raw, msw, published, reads, everOk, ran, modbus_lock, wire, cbVars, mqttVars>>

\* lines 433-437: the value stored for an echo register
EchoValue(reg, val) ==
  IF reg \in DOMAIN fc06_adjustments
  THEN Dec(val.num, fc06_adjustments[reg].den)
  ELSE val

\* lines 430-439: one iteration of the echo loop, and after the last one the timer
EchoDone ==
  /\ pc.g = "echo" /\ pc.ph = "ret"
  /\ LET reg == Fc06Regs[pc.i]
         val == read_via_fc06(response)
     IN last_writes' = IF IsNone(val) THEN last_writes
                       ELSE DictSet(last_writes, fc06_registers[reg], EchoValue(reg, val))
  /\ IF pc.i < Len(Fc06Regs)
     THEN /\ pc' = P("echo", pc.i + 1, "acq")
          /\ UNCHANGED last_misc_update
     ELSE /\ pc' = P("publish", 0, "-")
          /\ last_misc_update' =
               Stamp(last_misc_update, now,
                     \E k \in {Fc06Regs[i] : i \in 1..Len(Fc06Regs)} \cup
                              {RegEnergyMsw, RegEnergyLsw} : reads[k] = "fail")
  /\ response' = NoResp
  /\ UNCHANGED <<clock, pending, faults, now, last_coil_update, last_fc04_update, last_coils,
                 last_inputs, last_published, fc04_raw, msw, published, reads, everOk, ran,
                 modbus_lock, wire, cbVars, mqttVars>>

\* lines 442-446
full_payload ==
  [coils |-> last_coils,
   input_registers |-> SortedDict(last_inputs),
   write_registers |-> SortedDict(last_writes)]

\* variant: every tick publishes
PayloadAlwaysChanged(payload, last) == TRUE

\* line 449
PayloadChanged(payload, last) == payload # last

\* mqtt_client.publish at QoS 0: the message reaches the broker when the
\* client is connected and is dropped otherwise
ClientPublish(box, msg) == IF mqtt = "connected" THEN msg ELSE box

\* lines 442-452
Publish ==
  /\ pc.g = "publish"
  /\ IF PayloadChanged(full_payload, last_published)
     THEN /\ outbox' = ClientPublish(outbox, json_dumps(full_payload))
          /\ published' = json_dumps(full_payload)
          /\ last_published' = full_payload
     ELSE UNCHANGED <<outbox, published, last_published>>
  /\ pc' = P("sleep", 0, "-")
  /\ UNCHANGED <<clock, pending, faults, now, timerVars, cacheVars, fc04_raw, msw, response,
                 reads, everOk, ran, modbus_lock, wire, cbVars, mqtt, subscribed, drops>>

\* line 454: time.sleep(1) is called; a run ends with the first tick that
\* began h seconds after T0 or later
Sleep(h) ==
  /\ pc = P("sleep", 0, "-")
  /\ now < T0 + h
  /\ pending' = [pending EXCEPT !.poll = Waiting(clock + SleepSeconds, NoResp)]
  /\ pc' = P("sleep", 0, "wait")
  /\ UNCHANGED <<clock, faults, now, timerVars, cacheVars, last_published, fc04_raw, msw,
                 response, published, reads, everOk, ran, modbus_lock, wire, cbVars, mqttVars>>

\* line 454: time.sleep(1) returns, the loop starts over
Wake ==
  /\ pc = P("sleep", 0, "wait")
  /\ clock >= pending.poll.until
  /\ pending' = [pending EXCEPT !.poll = NotWaiting]
  /\ pc' = P("loop", 0, "-")
  /\ published' = <<>>
  /\ UNCHANGED <<clock, faults, now, timerVars, cacheVars, last_published, fc04_raw, msw,
                 response, reads, everOk, ran, modbus_lock, wire, cbVars, mqttVars>>

\* a time t as read on a clock set back by d seconds (-1: no time)
SetBack(t, d) == IF t = -1 THEN -1 ELSE t - d

\* line 454, the times read on a clock that is set back to T0 when
\* time.sleep(1) returns: the program compares differences of times only
WakeSetBack ==
  /\ pc = P("sleep", 0, "wait")
  /\ clock >= pending.poll.until
  /\ LET d == clock - T0
     IN /\ clock' = T0
        /\ now' = now - d
        /\ last_coil_update' = last_coil_update - d
        /\ last_fc04_update' = last_fc04_update - d
        /\ last_misc_update' = last_misc_update - d
        /\ ran' = [k \in DOMAIN ran |-> SetBack(ran[k], d)]
        /\ pending' = [poll |-> NotWaiting,
                       mqtt |-> IF pending.mqtt.until > clock
                                THEN Waiting(pending.mqtt.until - d, pending.mqtt.resp)
                                ELSE Waiting(0, pending.mqtt.resp)]
  /\ pc' = P("loop", 0, "-")
  /\ published' = <<>>
  /\ UNCHANGED <<faults, cacheVars, last_published, fc04_raw, msw, response, reads, everOk,
                 modbus_lock, wire, cbVars, mqttVars>>

\* time passes while a thread is in a blocking call (time.sleep, line 454; a
\* serial read that runs into instrument.serial.timeout, line 25): the clock
\* moves on to the earliest time at which such a call returns
Advance ==
  /\ \E w \in DOMAIN pending :
       /\ pending[w].until > clock
       /\ \A v \in DOMAIN pending : pending[v].until > clock => pending[w].until <= pending[v].until
       /\ clock' = pending[w].until
  /\ UNCHANGED <<pending, faults, pollVars, modbus_lock, wire, cbVars, mqttVars>>


(***************************************************************************)
(* Command dispatcher: on_message, run by the MQTT client's thread         *)
(***************************************************************************)
\* variant: the register is taken without its 0x100 offset
DispatchLowRegister(topic, payload) ==
  IF DecodeFails(payload) THEN [do |-> "failed", write |-> NoWrite]
  ELSE IF topic \notin DOMAIN command_map THEN [do |-> "ignored", write |-> NoWrite]
  ELSE IF ~ParseInt(PayloadStr(payload)).ok THEN [do |-> "failed", write |-> NoWrite]
  ELSE [do |-> "write",
        write |-> [register |-> command_map[topic].register % 256,
                   value |-> ParseInt(PayloadStr(payload)).val * command_map[topic].scale]]

\* lines 217-223: what on_message does with a message before it takes the
\* lock: "failed" (an exception, caught and printed at line 228), "ignored"
\* (the return at line 221) or "write" with the register and the scaled value
Dispatch(topic, payload) ==
  IF DecodeFails(payload) THEN [do |-> "failed", write |-> NoWrite]
  ELSE IF topic \notin DOMAIN command_map THEN [do |-> "ignored", write |-> NoWrite]
  ELSE IF ~ParseInt(PayloadStr(payload)).ok THEN [do |-> "failed", write |-> NoWrite]
  ELSE [do |-> "write",
        write |-> [register |-> command_map[topic].register,
                   value |-> ParseInt(PayloadStr(payload)).val * command_map[topic].scale]]

\* variant: a negative value is taken as a signed 16 bit word
SignedRegisterValues == (0 - Pow2(15))..(Pow2(16) - 1)

\* the values a holding register takes: write_register (line 225) refuses
\* any other value before it sends anything
RegisterValues == 0..(Pow2(16) - 1)

\* what write_register may do once the request is sent: return, or raise
\* (a timeout), when used of at most most deviations have happened
WriteOutcomes(used, most) ==
  {Resp(FALSE, 0, <<>>, 0)} \cup
  (IF used < most THEN {Resp(TRUE, SerialTimeout, <<>>, 0)} ELSE {})

\* the client's thread calls on_message for a PUBLISH packet it receives
\* (whatever the topic: the client does not filter), lines 215-223
Deliver(topic, payload) ==
  /\ cbpc = "idle"
  /\ mqtt = "connected"
  /\ msgs < MaxMsgs
  /\ msgs' = msgs + 1
  /\ cbmsg' = [topic |-> topic, payload |-> payload]
  /\ LET d == Dispatch(topic, payload)
     IN /\ cbwrite' = d.write
        /\ cbpc' = IF d.do = "write" THEN "acq" ELSE "done"
        /\ cbresult' = IF d.do = "write" THEN "" ELSE d.do
  /\ UNCHANGED <<clock, pending, faults, pollVars, modbus_lock, wire, cbresp, cbwrites, mqttVars>>

\* line 224
CbAcquire ==
  /\ cbpc = "acq"
  /\ CanAcquire(modbus_lock)
  /\ modbus_lock' = "mqtt"
  /\ cbpc' = "locked"
  /\ UNCHANGED <<clock, pending, faults, pollVars, wire, cbmsg, cbwrite, cbresp, cbresult,
                 cbwrites, msgs, mqttVars>>

\* line 225: write_register is called with a value a register takes, sends
\* the request and waits for the response, which is one of outcomes
CbSendTo(outcomes) ==
  /\ cbpc = "locked"
  /\ cbwrite.value \in RegisterValues
  /\ wire' = wire \cup {Frame("mqtt", 6, cbwrite.register, cbwrite.value)}
  /\ \E r \in outcomes :
       /\ pending' = [pending EXCEPT !.mqtt = Waiting(clock + r.dt, r)]
       /\ faults' = IF r.exc THEN faults + 1 ELSE faults
  /\ cbwrites' = cbwrites + 1
  /\ cbpc' = "sent"
  /\ UNCHANGED <<clock, pollVars, modbus_lock, cbmsg, cbwrite, cbresp, cbresult,
                 msgs, mqttVars>>

\* the same, the device deviating at most most times in the run
CbSend(most) == CbSendTo(WriteOutcomes(faults, most))

\* line 225: write_register is called with a value no register takes and
\* raises at once; nothing is sent
CbRefuse ==
  /\ cbpc = "locked"
  /\ cbwrite.value \notin RegisterValues
  /\ cbresp' = Resp(TRUE, 0, <<>>, 0)
  /\ cbpc' = "recvd"
  /\ UNCHANGED <<clock, pending, faults, pollVars, modbus_lock, wire, cbmsg, cbwrite,
                 cbresult, cbwrites, msgs, mqttVars>>

\* line 225: write_register returns or raises
CbRecv ==
  /\ cbpc = "sent"
  /\ clock >= pending.mqtt.until
  /\ cbresp' = pending.mqtt.resp
  /\ pending' = [pending EXCEPT !.mqtt = NotWaiting]
  /\ wire' = wire \ {Frame("mqtt", 6, cbwrite.register, cbwrite.value)}
  /\ cbpc' = "recvd"
  /\ UNCHANGED <<clock, faults, pollVars, modbus_lock, cbmsg, cbwrite, cbresult, cbwrites,
                 msgs, mqttVars>>

\* variant: a failed write is tried again
AfterWriteRetry(r) == IF r.exc THEN "acq" ELSE "done"

\* lines 226-228: where on_message goes after the write: it returns, also
\* from the except branch
AfterWrite(r) == "done"

\* variant: a write that succeeded is entered in the cache of echo values
CacheAfterCommandStored(writes, w, r) ==
  IF r.exc THEN writes ELSE DictSet(writes, "vv_setpoint", Whole(w.value))

\* lines 215-228: on_message assigns none of the module's variables; the
\* cache of echo values after the write w that ended as r
CacheAfterCommand(writes, w, r) == writes

\* lines 224-228: the with block is left; an exception is caught and printed
CbRelease ==
  /\ cbpc = "recvd"
  /\ modbus_lock' = ReleaseLock("mqtt", cbresp)
  /\ cbresult' = IF cbresp.exc THEN "failed" ELSE "written"
  /\ cbpc' = AfterWrite(cbresp)
  /\ last_writes' = CacheAfterCommand(last_writes, cbwrite, cbresp)
  /\ UNCHANGED <<clock, pending, faults, pc, now, timerVars, last_coils, last_inputs, last_published,
                 fc04_raw, msw, response, published, reads, everOk, ran, wire, cbmsg,
                 cbwrite, cbresp, cbwrites, msgs, mqttVars>>

\* on_message returns to the client's loop
CbReturn ==
  /\ cbpc = "done"
  /\ cbpc' = "idle"
  /\ cbmsg' = NoMsg /\ cbwrite' = NoWrite /\ cbresp' = NoResp
  /\ cbresult' = "" /\ cbwrites' = 0
  /\ UNCHANGED <<clock, pending, faults, pollVars, modbus_lock, wire, msgs, mqttVars>>

(***************************************************************************)
(* The connection to the broker                                            *)
(***************************************************************************)
\* whether mqtt_client.on_connect is set: the program defines on_connect
\* (line 42) and assigns only mqtt_client.on_message (line 230)
OnConnectRegistered == FALSE

\* on_connect, lines 42-48: the subscriptions after the callback
on_connect(rc, subs) == IF rc = 0 THEN subs \cup DOMAIN command_map ELSE subs

\* the client's thread receives CONNACK with return code rc and calls the
\* registered on_connect callback, if any
ConnAck(rc) ==
  /\ cbpc = "idle"
  /\ mqtt = "connecting"
  /\ mqtt' = IF rc = 0 THEN "connected" ELSE "connecting"
  /\ subscribed' = IF OnConnectRegistered THEN on_connect(rc, subscribed) ELSE subscribed
  /\ UNCHANGED <<clock, pending, faults, pollVars, modbus_lock, wire, cbVars, drops, outbox>>

\* the connection is lost; the client reconnects (reconnect_delay_set, line
\* 39) with a clean session, so the broker has dropped its subscriptions
Drop ==
  /\ cbpc = "idle"
  /\ mqtt = "connected"
  /\ drops < MaxDrops
  /\ drops' = drops + 1
  /\ mqtt' = "connecting"
  /\ subscribed' = {}
  /\ UNCHANGED <<clock, pending, faults, pollVars, modbus_lock, wire, cbVars, outbox>>

(***************************************************************************)
(* Specifications                                                          *)
(***************************************************************************)
\* the steps of the main loop but the bus request, the sleep and its return
PollBody ==
  \/ LoopTop \/ PollAcquire \/ PollRecv \/ PollRelease
  \/ CoilsDone \/ Fc04Done \/ PowerDone \/ MswDone \/ LswDone \/ EchoDone
  \/ Publish

\* the main loop, in a run of h seconds with at most f deviations of the device
PollStep(h, f) == PollBody \/ PollSend(f) \/ Sleep(h) \/ Wake

\* on_message once it has a command to write, with at most f failed writes
CallbackProgress(f) ==
  CbAcquire \/ CbSend(f) \/ CbRefuse \/ CbRecv \/ CbRelease \/ CbReturn

CallbackStep == (\E t \in InTopics, p \in InPayloads : Deliver(t, p)) \/ CallbackProgress(MaxFaults)

MqttStep == (\E rc \in {0, 5} : ConnAck(rc)) \/ Drop

\* the whole program, the connection staying once it is made
Next ==
  \/ PollStep(Horizon, MaxFaults) \/ CallbackStep
  \/ (\E rc \in {0, 5} : ConnAck(rc)) \/ Advance
Spec == Init /\ [][Next]_vars

\* the program while no command arrives: a longer run of the poll loop
NextPoll == PollStep(PollHorizon, MaxFaults) \/ MqttStep \/ Advance
SpecPoll == Init /\ [][NextPoll]_vars

\* the program under fair scheduling, a command arriving, the device
\* failing to answer any of its requests for TimeoutRegs, the write failing
\* or not: the operating system runs each thread that can take a step, and
\* time passes (weak fairness on the steps of the main thread, on those of
\* on_message, and on the clock). Nothing is assumed of the order in which
\* modbus_lock is granted
PollLive ==
  PollBody \/ PollSendTo(TimeoutResponses(PollFrame(pc))) \/ Sleep(LiveHorizon) \/ Wake
CallbackLive ==
  CbAcquire \/ CbSendTo(WriteOutcomes(0, 1)) \/ CbRecv \/ CbRelease \/ CbReturn
NextLive ==
  \/ PollLive
  \/ (msgs < MaxLiveMsgs /\ Deliver("dvi/command/vvsetpoint", <<50, 50>>))
  \/ CallbackLive
  \/ ConnAck(0)
  \/ Advance
Fairness == WF_vars(PollLive) /\ WF_vars(CallbackLive) /\ WF_vars(Advance)
SpecLive == Init /\ [][NextLive]_vars /\ Fairness

\* the program running without end, the device answering every request, the
\* connection made before the first tick, a command arriving at any time:
\* the main loop takes the lock again and again. The same fairness: each
\* thread that can take a step is run, and time passes (the clock being set
\* back at every return of the sleep, every tick begins at T0 and the run
\* has no last tick)
PollForever == PollBody \/ PollSend(0) \/ Sleep(SleepSeconds) \/ WakeSetBack
CallbackForever == CbAcquire \/ CbSend(0) \/ CbRecv \/ CbRelease \/ CbReturn
NextForever ==
  \/ PollForever
  \/ (msgs < MaxLiveMsgs /\ Deliver("dvi/command/vvsetpoint", <<50, 50>>))
  \/ CallbackForever
  \/ (now = 0 /\ ConnAck(0))
  \/ Advance
FairnessForever == WF_vars(PollForever) /\ WF_vars(CallbackForever) /\ WF_vars(Advance)
SpecForever == Init /\ [][NextForever]_vars /\ FairnessForever

\* the largest 16 bit coil mask
MaxMask == Pow2(16) - 1

\* a well-formed FC01 response carrying a mask: byte count 2, low byte, high byte
CoilResponse(mask) == Resp(FALSE, 0, <<2, LoByte(mask), HiByte(mask)>>, 0)

\* the coil read is sent and the device answers with a well-formed response
\* carrying any mask (line 174)
CoilSend ==
  /\ pc.g = "coils"
  /\ PollSendTo({CoilResponse(mask) : mask \in 0..MaxMask})

\* the coil group of the first tick, the device reporting any coil mask
NextCoils ==
  \/ LoopTop \/ PollAcquire \/ CoilSend
  \/ PollRecv \/ PollRelease \/ CoilsDone
SpecCoils == Init /\ [][NextCoils]_vars


(***************************************************************************)
(* Properties                                                              *)
(***************************************************************************)
\* a thread is inside a bus transaction: between taking the lock and leaving
\* the with block
InTxn(ph) == ph \in {"locked", "sent", "recvd"}

\* C1: mutual exclusion on the serial bus. At most one frame is on the wire,
\* the two threads are never inside a transaction together, and a thread
\* holds the lock from before its request is sent (locked) until after its
\* response is received (recvd).
C1_MutualExclusion ==
  /\ Cardinality(wire) <= 1
  /\ \A f \in wire : modbus_lock = f.by
  /\ ~(InTxn(pc.ph) /\ InTxn(cbpc))
  /\ InTxn(pc.ph) => modbus_lock = "poll"
  /\ InTxn(cbpc) => modbus_lock = "mqtt"

\* C1 witness: the command write is on the wire while the main thread, out
\* of the with block of its coil read, has not yet stored what the read
\* returned
C1_Witness ==
  /\ pc = P("coils", 0, "ret") /\ ~response.exc
  /\ cbpc = "sent" /\ modbus_lock = "mqtt"
  /\ wire = {Frame("mqtt", 6, 267, 22)}

\* the coil group's run ends in this step
CoilGroupEnds == pc.g = "coils" /\ pc.ph = "ret" /\ pc'.g # "coils"
\* the fast-register group's run ends in this step
Fc04GroupEnds == pc.g = "power" /\ pc.ph = "ret" /\ pc'.g # "power"
\* the slow group's run ends in this step
MiscGroupEnds == pc.g = "echo" /\ pc.ph = "ret" /\ pc'.g = "publish"
\* some read of the registers regs failed in this tick
ReadFailed(regs) == \E k \in regs \cap DOMAIN reads : reads[k] = "fail"
CoilRegs == {0}
FastRegs == {1, 2, 3, 4, 5, 6, 7, 8, 9, 10, 11, 12, 13, 14, 36}
SlowRegs == {37, 38, 1, 2, 3, 4, 10, 11, 12, 15, 161, 162, 163, 208}

\* C2: when the coil read fails, the coil mapping after the coil group's run
\* equals the coil mapping before it.
C2_CoilsKeptOnFailure ==
  [][(CoilGroupEnds /\ ReadFailed(CoilRegs)) => last_coils' = last_coils]_vars

\* C3 as claimed: after a run of a group in which a read failed, the group's
\* timestamp is unchanged.
C3_TimerOnlyOnSuccess ==
  [][/\ (CoilGroupEnds /\ ReadFailed(CoilRegs)) => last_coil_update' = last_coil_update
     /\ (Fc04GroupEnds /\ ReadFailed(FastRegs)) => last_fc04_update' = last_fc04_update
     /\ (MiscGroupEnds /\ ReadFailed(SlowRegs)) => last_misc_update' = last_misc_update]_vars

\* C3 amended: a group's timestamp is set to the tick's now at the end of
\* every run of the group, whether its reads failed or not, and changes at no
\* other step; a group is entered only when its interval has elapsed since
\* its timestamp.
C3_TimerAfterEveryAttempt ==
  [][/\ last_coil_update' = IF CoilGroupEnds THEN now ELSE last_coil_update
     /\ last_fc04_update' = IF Fc04GroupEnds THEN now ELSE last_fc04_update
     /\ last_misc_update' = IF MiscGroupEnds THEN now ELSE last_misc_update
     /\ (pc.g # "coils" /\ pc'.g = "coils") => now' - last_coil_update >= 13
     /\ (pc.g # "fc04" /\ pc'.g = "fc04") => now' - last_fc04_update >= 17
     /\ (pc.g # "msw" /\ pc'.g = "msw") => now' - last_misc_update >= 60]_vars

\* C3 witness: the coil read of this tick failed and the coil timer is the tick's now
C3_Witness ==
  /\ pc.g = "publish"
  /\ ReadFailed(CoilRegs)
  /\ last_coil_update = now

\* the registers behind each label of input_registers and write_registers
InputLabelRegs ==
  ("CV Forward" :> {1}) @@ ("CV Return" :> {2}) @@ ("Storage tank VV" :> {3}) @@
  ("Storage tank CV" :> {5}) @@ ("Evaporator" :> {6}) @@ ("Outdoor" :> {7}) @@
  ("Compressor HP" :> {11}) @@ ("Compressor LP" :> {12}) @@
  ("em23_power" :> {36}) @@ ("em23_energy" :> {37, 38})
WriteLabelRegs ==
  ("cv_mode" :> {1}) @@ ("cv_curve" :> {2}) @@ ("cv_setpoint" :> {3}) @@
  ("cv_night_setback" :> {4}) @@ ("vv_mode" :> {10}) @@ ("vv_setpoint" :> {11}) @@
  ("vv_schedule" :> {12}) @@ ("aux_heating" :> {15}) @@ ("comp_hours" :> {161}) @@
  ("vv_hours" :> {162}) @@ ("heating_hours" :> {163}) @@ ("curve_temp" :> {208})

\* in this step mapping d keeps its labels, every label it holds is backed
\* by registers that were read well at some time, and a label whose value
\* is new or different has had its registers read well in this tick
KeptUnlessRead(d, dnext, regsOf) ==
  /\ DOMAIN d \subseteq DOMAIN dnext
  /\ \A l \in DOMAIN dnext :
       /\ l \in DOMAIN regsOf
       /\ regsOf[l] \subseteq everOk'
       /\ (l \notin DOMAIN d \/ dnext[l] # d[l]) =>
            \A k \in regsOf[l] : k \in DOMAIN reads' /\ reads'[k] = "ok"

\* C4: a failed read of an input or echo register leaves the cached value of
\* its label as it was, a label is present only if its register was read
\* successfully before, and a label once present is never removed.
C4_StaleButPresent ==
  [][/\ KeptUnlessRead(last_inputs, last_inputs', InputLabelRegs)
     /\ KeptUnlessRead(last_writes, last_writes', WriteLabelRegs)]_vars

\* C4 witness: the group has run, the read of register 0x06 failed in this
\* tick and Evaporator still holds the value of the earlier read
C4_Witness ==
  /\ pc.g = "publish"
  /\ ReadFailed({6})
  /\ "Evaporator" \in DOMAIN last_inputs
  /\ last_inputs["Evaporator"] = Dec(215, 10)

\* the snapshot of the cache: the three mappings
Snapshot ==
  [coils |-> last_coils, input_registers |-> last_inputs, write_registers |-> last_writes]

\* items lists every entry of mapping d exactly once
ItemsOf(items, d) ==
  /\ Len(items) = Cardinality(DOMAIN d)
  /\ \A i \in 1..Len(items) : items[i][1] \in DOMAIN d /\ items[i][2] = d[items[i][1]]
  /\ \A i, j \in 1..Len(items) : items[i][1] = items[j][1] => i = j

\* msg carries the three mappings of the snapshot
CarriesSnapshot(msg) ==
  /\ Len(msg) = 3
  /\ msg[1][1] = "coils" /\ ItemsOf(msg[1][2], last_coils)
  /\ msg[2][1] = "input_registers" /\ ItemsOf(msg[2][2], last_inputs)
  /\ msg[3][1] = "write_registers" /\ ItemsOf(msg[3][2], last_writes)

\* C5: publish only on change. At the end of a tick the snapshot is given to
\* mqtt_client.publish if and only if it differs from the last published one
\* (always on the first tick, when last_published is None); the message carries
\* the three mappings in full, and afterwards last_published is the snapshot,
\* so that a next tick with an equal snapshot publishes nothing.
C5_PublishOnChange ==
  [][(pc.g = "publish" /\ pc'.g = "sleep") =>
       /\ (published' # <<>>) <=> (Snapshot # last_published)
       /\ last_published = NoneVal => published' # <<>>
       /\ published' # <<>> => CarriesSnapshot(published')
       /\ last_published' = Snapshot]_vars

\* C5 witness: a tick after the first one that published nothing, the
\* snapshot being the last published one
C5_Witness ==
  /\ pc.g = "sleep"
  /\ published = <<>>
  /\ last_published = Snapshot
  /\ last_coils # EmptyDict

\* C6: after every successful connection or reconnection the client is
\* subscribed to every topic of command_map.
C6_SubscribedWhenConnected ==
  mqtt = "connected" => DOMAIN command_map \subseteq subscribed

\* the integer each integer payload of the exploration stands for
ExpectedInt ==
  (<<50, 50>> :> 22) @@ (<<12, 217, 163, 13, 10>> :> 3) @@ (<<45, 49>> :> -1) @@
  (<<54, 53, 53, 51, 54>> :> 65536)

\* on_message is handling a command: a message on a mapped topic whose
\* payload is an integer
HasCommand == cbmsg.topic \in DOMAIN command_map /\ cbmsg.payload \in DOMAIN ExpectedInt
\* the register and the value of that command
CommandReg == command_map[cbmsg.topic].register
CommandVal == ExpectedInt[cbmsg.payload] * command_map[cbmsg.topic].scale

\* C7 as claimed: while on_message handles a message on a mapped topic whose
\* payload is an integer v, it is on its way through one
\* write-single-register transaction to command_map[topic].register with
\* value v * scale: the frame it sends is that write, sent while it holds
\* the lock, and past the call one request has been sent.
C7_EveryIntegerWritten ==
  HasCommand =>
    /\ cbpc \in {"acq", "locked", "sent", "recvd", "done"}
    /\ cbwrite = [register |-> CommandReg, value |-> CommandVal]
    /\ cbpc \in {"acq", "locked"} => cbwrites = 0
    /\ cbpc = "sent" =>
         (Frame("mqtt", 6, CommandReg, CommandVal) \in wire /\ modbus_lock = "mqtt")
    /\ cbpc \in {"sent", "recvd", "done"} => cbwrites = 1

\* C7 amended: for such a message on_message takes the lock and calls
\* write_register for command_map[topic].register with v * scale. When
\* v * scale is in 0..65535 the call is one write-single-register
\* transaction: that frame is sent, under the lock, once. When it is not,
\* the call raises under the lock before anything is sent: no frame of
\* on_message is ever on the wire and the message ends as a failure.
C7_CommandWrite ==
  HasCommand =>
    /\ cbpc \in {"acq", "locked", "sent", "recvd", "done"}
    /\ cbwrite = [register |-> CommandReg, value |-> CommandVal]
    /\ cbpc \in {"acq", "locked"} => cbwrites = 0
    /\ cbpc \in {"locked", "sent", "recvd"} => modbus_lock = "mqtt"
    /\ \A f \in wire : f.by = "mqtt" => f = Frame("mqtt", 6, CommandReg, CommandVal)
    /\ IF CommandVal \in 0..65535
       THEN /\ cbpc = "sent" => Frame("mqtt", 6, CommandReg, CommandVal) \in wire
            /\ cbpc \in {"sent", "recvd", "done"} => cbwrites = 1
            /\ cbpc = "recvd" => cbresp \in WriteOutcomes(0, 1)
       ELSE /\ cbpc # "sent" /\ cbwrites = 0
            /\ \A f \in wire : f.by # "mqtt"
            /\ cbpc = "recvd" => cbresp.exc
            /\ cbpc = "done" => cbresult = "failed"

\* C7 witness: the second message is payload 22 on dvi/command/vvsetpoint,
\* and the write of 22 to 0x10B is on the wire, under the lock
C7_Witness ==
  /\ msgs = 2
  /\ cbmsg = [topic |-> "dvi/command/vvsetpoint", payload |-> <<50, 50>>]
  /\ cbpc = "sent" /\ cbwrites = 1 /\ modbus_lock = "mqtt"
  /\ Frame("mqtt", 6, 267, 22) \in wire

\* the message is on an unmapped topic or its payload is no integer
NoCommand(m) ==
  m # NoMsg /\ (m.topic \notin DOMAIN command_map \/ m.payload \notin DOMAIN ExpectedInt)

\* a step in which on_message takes up message m and drops it: no lock, no
\* frame, no write, the cache, timers and published state as they were
Dropped(m) ==
  /\ cbpc' = "done"
  /\ cbwrites' = 0
  /\ cbresult' \in {"ignored", "failed"}
  /\ UNCHANGED <<modbus_lock, wire, cacheVars, timerVars, last_published>>

\* C8: a message on an unmapped topic, or with a payload that is no integer,
\* is dropped without a bus transaction, and on an unmapped topic without
\* an error.
C8_DroppedUnmappedSilently ==
  [][(cbmsg' # cbmsg /\ NoCommand(cbmsg')) =>
       /\ Dropped(cbmsg')
       /\ cbmsg'.topic \notin DOMAIN command_map => cbresult' = "ignored"]_vars

\* C9: at-most-once command writes. A message never has a second write
\* sent; a write that failed sends on_message to its end with the lock free
\* and no frame left on the wire, and from its end on_message only returns
\* to idle, where the next message is taken up.
C9_AtMostOnce ==
  [][/\ cbwrites' <= 1
     /\ (cbpc = "recvd" /\ cbresp.exc /\ cbpc' # cbpc) =>
          (cbpc' = "done" /\ cbresult' = "failed" /\ modbus_lock' = "free" /\ wire' = {})
     /\ cbpc = "done" => cbpc' \in {"done", "idle"}
     /\ (cbpc = "idle" /\ cbpc' # "idle") => (cbwrites' = 0 /\ cbmsg' # NoMsg)]_vars

\* C9 witness: the write of the second message is on the wire after the write
\* of the first one failed (the poll loop has not yet had a response, so the
\* deviation counted is that write's timeout)
C9_Witness ==
  /\ msgs = 2 /\ cbpc = "sent" /\ cbwrites = 1
  /\ faults = 1 /\ clock = T0 + SerialTimeout
  /\ now = T0 /\ pc = P("coils", 0, "acq") /\ reads = <<>>

\* C10: the lock is released on every exit path: whenever neither thread is
\* inside a transaction the lock is free.
C10_LockReleased ==
  (~InTxn(pc.ph) /\ ~InTxn(cbpc)) => modbus_lock = "free"

\* C10 witness: the coil read has timed out and the main thread, out of the
\* with block, has not yet stored the result; write_register has refused
\* the value of a command and on_message is at its end; the lock is free
C10_Witness ==
  /\ pc = P("coils", 0, "ret") /\ response.exc
  /\ cbpc = "done" /\ cbresult = "failed" /\ HasCommand /\ cbwrites = 0
  /\ modbus_lock = "free"

\* C11 as claimed: rate limit per group in clock time. The starts of two
\* runs of the coil group are at least 13 s of clock time apart, those of
\* the fast-register group at least 17 s, those of the slow group at least
\* 60 s.
C11_RateLimitClock ==
  [][/\ (pc.g # "coils" /\ pc'.g = "coils") =>
          (ran.coilsAt = -1 \/ clock' - ran.coilsAt >= 13)
     /\ (pc.g # "fc04" /\ pc'.g = "fc04") =>
          (ran.fc04At = -1 \/ clock' - ran.fc04At >= 17)
     /\ (pc.g # "msw" /\ pc'.g = "msw") =>
          (ran.miscAt = -1 \/ clock' - ran.miscAt >= 60)]_vars

\* C11 amended: rate limit per group in tick time. Two runs of the coil
\* group are in ticks whose now are at least 13 s apart, two runs of the
\* fast-register group at least 17 s, two runs of the slow group at least
\* 60 s: a group is entered only when it never ran or its latest run was in
\* a tick that much earlier. A run starts no earlier than that after the
\* now of the tick of the run before it; the coil group, the first
\* statement of a tick, starts at the tick's now, so that its runs are that
\* far apart in clock time too.
C11_RateLimit ==
  [][/\ (pc.g # "coils" /\ pc'.g = "coils") =>
          \/ ran.coils = -1
          \/ /\ now' - ran.coils >= 13
             /\ clock' - ran.coils >= 13
             /\ clock' - ran.coilsAt >= 13
     /\ (pc.g # "fc04" /\ pc'.g = "fc04") =>
          (ran.fc04 = -1 \/ (now' - ran.fc04 >= 17 /\ clock' - ran.fc04 >= 17))
     /\ (pc.g # "msw" /\ pc'.g = "msw") =>
          (ran.misc = -1 \/ (now' - ran.misc >= 60 /\ clock' - ran.misc >= 60))
     /\ ran' # ran => (\/ pc'.g = "coils" /\ ran'.coils = now' /\ ran'.coilsAt = now'
                       \/ pc'.g = "fc04" /\ ran'.fc04 = now' /\ ran'.fc04At = clock'
                       \/ pc'.g = "msw" /\ ran'.misc = now' /\ ran'.miscAt = clock')]_vars

\* C11 witness: the fast-register group runs for the second time, in the
\* tick 17 s after the tick of its first run, after a device failure; the
\* coil group last ran in another tick, 13 s after its first run
C11_Witness ==
  /\ pc.g = "fc04" /\ now = T0 + 17 /\ ran.fc04 = now /\ ran.fc04At = clock
  /\ faults = 1
  /\ ran.coils = T0 + 13 /\ ran.misc = T0

\* C12: last_published is the last snapshot that was transmitted: whenever it
\* is set, the message that last reached the broker is its serialisation.
C12_PublishedIsTransmitted ==
  last_published # NoneVal => outbox = json_dumps(last_published)

\* the registers of command_map
CommandRegs == {command_map[t].register : t \in DOMAIN command_map}

\* C14: the poll loop never performs a genuine write. Every function code 6
\* frame the poll loop sends has value field 0 and a register of the echo
\* table, and every function code 6 frame with a value of its own is sent by
\* on_message, to a register of command_map, with the value of the command.
C14_PollNeverWrites ==
  \A f \in wire :
    /\ f.by = "poll" => f.fc \in {1, 4, 6}
    /\ (f.by = "poll" /\ f.fc = 6) => (f.b = 0 /\ f.a \in DOMAIN fc06_registers)
    /\ (f.fc = 6 /\ f.b # 0) => f.by = "mqtt"
    /\ f.by = "mqtt" =>
         /\ f.fc = 6 /\ f.a \in CommandRegs
         /\ cbmsg.payload \in DOMAIN ExpectedInt /\ f.b = ExpectedInt[cbmsg.payload]

\* C14 witness: the echo read of curve_temp (0xD0) is on the wire with value
\* field 0, after a command write
C14_Witness ==
  /\ Frame("poll", 6, 208, 0) \in wire
  /\ cbresult = "written"

\* the keys input_registers may hold
InputKeys ==
  {"CV Forward", "CV Return", "Storage tank VV", "Storage tank CV", "Evaporator",
   "Outdoor", "Compressor HP", "Compressor LP", "em23_power", "em23_energy"}

\* C16: omitted input registers are polled but never published. At the end
\* of a run of the fast-register group every index 0x01..0x0E has been read
\* in this tick, the omitted ones included, and input_registers never holds
\* a key other than the eight labels, em23_power and em23_energy.
C16_OmittedPolledNotPublished ==
  [][/\ DOMAIN last_inputs' \subseteq InputKeys
     /\ \A k \in {4, 8, 9, 10, 13, 14} : SensorKey[k] \notin DOMAIN last_inputs'
     /\ (pc.g = "fc04" /\ pc'.g = "power") =>
          \A k \in 1..14 : k \in DOMAIN reads /\ (reads[k] = "ok" <=> k \in DOMAIN fc04_raw')]_vars

\* C16 witness: the read loop has ended, the omitted register 4 was read
\* with a value, and input_registers holds the eight labels only
C16_Witness ==
  /\ pc.g = "power"
  /\ 4 \in DOMAIN fc04_raw /\ 14 \in DOMAIN fc04_raw
  /\ Cardinality(DOMAIN last_inputs) = 8

\* C17: energy accumulator. The slow group reads 0x25 and then 0x26; when
\* both reads gave a value em23_energy becomes (high * 65536 + low) / 10
\* (high 1, low 0x2345: 7456.5) and nothing else in input_registers changes;
\* when a read failed input_registers is left as it was.
C17_EnergyAccumulator ==
  [][/\ (pc.g # "lsw" /\ pc'.g = "lsw") =>
          (pc.g = "msw" /\ 37 \in DOMAIN reads /\ 38 \notin DOMAIN reads)
     /\ (pc.g = "lsw" /\ pc.ph = "ret" /\ pc'.g # "lsw") =>
          IF reads[37] = "ok" /\ reads[38] = "ok"
          THEN /\ "em23_energy" \in DOMAIN last_inputs'
               /\ last_inputs'["em23_energy"].den = 10
               /\ last_inputs'["em23_energy"].num = msw.num * 65536 + response.val
               /\ (msw.num = 1 /\ response.val = 9029) =>
                    last_inputs'["em23_energy"] = Dec(74565, 10)
               /\ \A l \in DOMAIN last_inputs \ {"em23_energy"} :
                    l \in DOMAIN last_inputs' /\ last_inputs'[l] = last_inputs[l]
          ELSE last_inputs' = last_inputs
     /\ ("em23_energy" \in DOMAIN last_inputs /\ pc.g # "lsw") =>
          ("em23_energy" \in DOMAIN last_inputs' /\
           last_inputs'["em23_energy"] = last_inputs["em23_energy"])]_vars

\* C17 witness: in the second run of the slow group the read of the low word
\* failed and em23_energy still holds 7456.5 from the first run
C17_Witness ==
  /\ pc.g = "echo" /\ now >= T0 + 60
  /\ ReadFailed({38})
  /\ "em23_energy" \in DOMAIN last_inputs
  /\ last_inputs["em23_energy"] = Dec(74565, 10)

\* C18: a command write leaves the bridge's own state unchanged. No step of
\* on_message changes the three cache mappings, the three timers or
\* last_published, whether the write succeeds or fails; write_registers
\* changes only when an echo read of the slow group returns a value, and
\* then only at that register's label.
C18_CommandLeavesState ==
  [][/\ cbVars' # cbVars => UNCHANGED <<cacheVars, timerVars, last_published>>
     /\ last_writes' # last_writes =>
          /\ pc.g = "echo" /\ pc.ph = "ret" /\ pc' # pc
          /\ reads[Fc06Regs[pc.i]] = "ok"
          /\ \A l \in DOMAIN last_writes' :
               l # fc06_registers[Fc06Regs[pc.i]] =>
                 (l \in DOMAIN last_writes /\ last_writes'[l] = last_writes[l])]_vars

\* C18 witness: a command write has succeeded while the poll loop is about
\* to start its echo reads; write_registers is still empty
C18_Witness ==
  /\ cbpc = "done" /\ cbresult = "written" /\ cbwrite.value = 22
  /\ pc = P("echo", 1, "acq")
  /\ last_writes = EmptyDict /\ last_inputs # EmptyDict

\* C19: the lock is held per transaction, not per group. The poll loop frees
\* the lock at the end of every single bus call, before it stores what the
\* call returned, and takes it again, from free, for the next one, so that
\* between two reads of a group run it does not hold the lock and the
\* command write can take it.
C19_LockPerTransaction ==
  [][/\ (pc.ph = "recvd" /\ pc' # pc) =>
          (modbus_lock' = "free" /\ pc' = [pc EXCEPT !.ph = "ret"])
     /\ (pc.ph = "ret" /\ pc' # pc) => pc'.ph \in {"acq", "-"}
     /\ (pc.ph # "locked" /\ pc'.ph = "locked") =>
          (pc.ph = "acq" /\ modbus_lock = "free" /\ pc'.g = pc.g /\ pc'.i = pc.i)
     /\ pc.ph \in {"acq", "ret"} => modbus_lock # "poll"
     /\ (cbpc = "acq" /\ cbpc' = "locked") => (modbus_lock = "free" /\ ~InTxn(pc.ph))]_vars

\* C19 witness: the command write is on the wire between the read of the
\* high word, whose with block the main thread has left without having
\* stored the value yet, and the read of the low word
C19_Witness ==
  /\ pc = P("msw", 0, "ret")
  /\ 37 \in DOMAIN reads /\ 38 \notin DOMAIN reads
  /\ cbpc = "sent" /\ modbus_lock = "mqtt"
  /\ Frame("mqtt", 6, 267, 22) \in wire

\* the sum of 2^i over the schema coils i whose label has value 1 in d
RECURSIVE DecodedMask(_, _)
DecodedMask(d, idxs) ==
  IF idxs = {} THEN 0
  ELSE LET i == CHOOSE x \in idxs : TRUE
       IN d[coil_names[i]] * Pow2(i) + DecodedMask(d, idxs \ {i})

\* what the bits outside the schema (6, 7, 13, 15) can add to a mask
UnnamedBitSums ==
  {a * Pow2(6) + b * Pow2(7) + c * Pow2(13) + d * Pow2(15) : a, b, c, d \in {0, 1}}

\* C15: coil decoding. For a well-formed response with mask m (byte 1 low,
\* byte 2 high) the coil group stores exactly the twelve schema labels, each
\* with 0 or 1, such that the schema bits put back at their positions give m
\* up to the bits outside the schema: every schema coil i has bit i of m,
\* and index 13 has no entry.
C15_CoilDecoding ==
  [][(pc.g = "coils" /\ pc.ph = "ret" /\ pc' # pc /\ reads[0] = "ok") =>
       LET m == response.bytes[2] + 256 * response.bytes[3]
       IN /\ DOMAIN last_coils' = {coil_names[i] : i \in DOMAIN coil_names}
          /\ Cardinality(DOMAIN last_coils') = 12
          /\ 13 \notin DOMAIN coil_names
          /\ \A l \in DOMAIN last_coils' : last_coils'[l] \in {0, 1}
          /\ m - DecodedMask(last_coils', DOMAIN coil_names) \in UnnamedBitSums]_vars

\* C15 witness: a mask with bits 12 and 14 set and bits 0..5 and 8..11
\* clear was decoded
C15_Witness ==
  /\ pc.g = "fc04" /\ last_coils # EmptyDict
  /\ last_coils["Circ. pump CV"] = 1 /\ last_coils["Sum alarm failure"] = 1
  /\ \A i \in {0, 1, 2, 3, 4, 5, 8, 9, 10, 11} : last_coils[coil_names[i]] = 0

\* C13: no deadlock and no indefinite blocking, under fair scheduling,
\* whichever of the reads time out. Every bus transaction ends and frees
\* the lock, every tick reaches its sleep, and every sleep returns and the
\* next tick begins; and when a group's run ends, with or without a failed
\* read, the next statement is the next due group (the fast-register group
\* if 17 s have elapsed, else the slow group if 60 s have, else the publish
\* step).
C13_TicksComplete ==
  /\ (modbus_lock # "free") ~> (modbus_lock = "free")
  /\ (pc.g # "sleep") ~> (pc.g = "sleep")
  /\ (pc = P("sleep", 0, "wait")) ~> (pc.g = "loop")
  /\ [][/\ CoilGroupEnds =>
             pc'.g = (IF now - last_fc04_update >= 17 THEN "fc04"
                      ELSE IF now - last_misc_update >= 60 THEN "msw" ELSE "publish")
        /\ Fc04GroupEnds =>
             pc'.g = (IF now - last_misc_update >= 60 THEN "msw" ELSE "publish")
        /\ (pc.ph = "ret" /\ pc' # pc /\ pc.g \in {"fc04", "msw", "lsw", "echo"}) =>
             \/ pc' = P(pc.g, pc.i + 1, "acq")
             \/ pc.g = "fc04" /\ pc.i = 14 /\ pc' = P("power", 0, "acq")
             \/ pc.g = "msw" /\ pc' = P("lsw", 0, "acq")
             \/ pc.g = "lsw" /\ pc' = P("echo", 1, "acq")
             \/ pc.g = "echo" /\ pc.i = 12 /\ pc'.g = "publish"]_vars

\* C13 witness: the second tick has begun, 19 s after the first, in which
\* the coil read, three reads of the fast-register group and four reads of
\* the slow group timed out and, between two of them, the command write
\* timed out as well
C13_Witness ==
  /\ pc.g = "loop" /\ now = T0 /\ clock = T0 + 9 * SerialTimeout + SleepSeconds
  /\ \A k \in TimeoutRegs : ReadFailed({k})
  /\ faults = 9
  /\ last_coils = EmptyDict /\ last_misc_update = now
  /\ cbresult = "failed" /\ cbwrites = 1
  /\ modbus_lock = "free"

C20_WithoutFairLock ==
  (cbpc = "acq") ~> (cbpc = "sent" /\ cbwrites = 1)

=============================================================================
